---- MODULE Spec2Model ----
(***************************************************************************)
(* A model of the A/B testing notebook ab_testing.ipynb:                   *)
(*   - get_sample_estimate, the sample size calculator;                    *)
(*   - draw_samples, the Bernoulli sampler over random.uniform;            *)
(*   - the evaluation cells: st.chisquare(f_obs, f_exp) and the power      *)
(*     estimate.                                                           *)
(*                                                                         *)
(* Floats are modelled in decimal: z-scores and square roots to four       *)
(* decimals (1/ZScale), their products and sums as exact rationals num/den *)
(* (so that the sign of a nearly cancelling numerator is the code's), and  *)
(* the quotient and its square as decimal floats mant * 10^exp of four     *)
(* significant digits. Both carry the IEEE values inf, -inf and nan,       *)
(* because the code's behaviour on invalid arguments is decided by them.   *)
(* Probabilities (sig, power) are given in units of 1/ProbDen, rates (p1,  *)
(* mde, sigma1) in units of 1/RateDen.                                     *)
(***************************************************************************)
EXTENDS Integers, Sequences, FiniteSets

VARIABLES
    est_pc,         \* "idle" before the call of get_sample_estimate, "done" after
    est_args,       \* the arguments of the call
    est_result,     \* what the call returned or raised
    exp_pc,         \* the notebook's position in the experiment cells
    draw,           \* the frame of the running call of draw_samples
    rand_taken,     \* the values the running call took from random.uniform
    control_group,  \* control_group of line 146
    test_group,     \* test_group of line 149
    chi_result,     \* the value of the cell st.chisquare(f_obs, f_exp)
    power_result    \* what the power cell printed or raised

est_vars == <<est_pc, est_args, est_result>>
exp_vars == <<exp_pc, draw, rand_taken, control_group, test_group,
              chi_result, power_result>>
vars == <<est_vars, exp_vars>>

-----------------------------------------------------------------------------
(* Fixed-point units of the float quantities.                              *)

\* sig and power are multiples of 1/40 (0.05 is 2, 0.8 is 32).
ProbDen == 40
\* p1, mde and sigma1 are multiples of 1/100 (0.04 is 4).
RateDen == 100
\* z-scores and square roots are kept to four decimals.
ZScale == 10000

-----------------------------------------------------------------------------
(* Extended numbers: IEEE doubles as the code uses them.                   *)

Sgn(i) == IF i > 0 THEN 1 ELSE IF i < 0 THEN -1 ELSE 0
Abs(i) == IF i < 0 THEN -i ELSE i

RECURSIVE Gcd(_, _)
Gcd(a, b) == IF b = 0 THEN a ELSE Gcd(b, a % b)

\* The finite value num/den (den > 0), kept in lowest terms.
Fin(num, den) ==
    LET g == Gcd(Abs(num), den)
    IN  [k |-> "fin", num |-> num \div g, den |-> den \div g]
PInf == [k |-> "inf", num |-> 1, den |-> 1]
NInf == [k |-> "inf", num |-> -1, den |-> 1]
NaN == [k |-> "nan", num |-> 0, den |-> 1]

\* x * a for a finite Python float a = r / ZScale (float64 * float).
FMul(x, r) ==
    IF x.k = "nan" THEN NaN
    ELSE IF x.k = "inf"
         THEN IF r = 0 THEN NaN ELSE IF x.num * Sgn(r) > 0 THEN PInf ELSE NInf
         ELSE Fin(x.num * r, x.den * ZScale)

\* x + y (float64 addition): inf + -inf is nan.
FAdd(x, y) ==
    IF x.k = "nan" \/ y.k = "nan" THEN NaN
    ELSE IF x.k = "inf" /\ y.k = "inf"
         THEN IF x.num = y.num THEN x ELSE NaN
    ELSE IF x.k = "inf" THEN x
    ELSE IF y.k = "inf" THEN y
    ELSE LET g == Gcd(x.den, y.den)
         IN  Fin(x.num * (y.den \div g) + y.num * (x.den \div g),
                 (x.den \div g) * y.den)

\* The float results mant * 10^exp: a finite non-zero one has
\* MantMin <= |mant| < 10 * MantMin, zero is mant = 0, exp = 0.
MantMin == 1000
DZero == [k |-> "fin", mant |-> 0, exp |-> 0]
DPInf == [k |-> "inf", mant |-> 1, exp |-> 0]
DNInf == [k |-> "inf", mant |-> -1, exp |-> 0]
DNaN == [k |-> "nan", mant |-> 0, exp |-> 0]

\* The digits of (mant + r/den) * 10^exp, r < den, cut to four significant
\* ones: long division, one digit a step.
RECURSIVE Digits(_, _, _, _)
Digits(mant, r, den, exp) ==
    IF mant >= 10 * MantMin THEN Digits(mant \div 10, 0, 1, exp + 1)
    ELSE IF mant >= MantMin THEN [mant |-> mant, exp |-> exp]
    ELSE Digits(mant * 10 + (r * 10) \div den, (r * 10) % den, den, exp - 1)

\* The float nearest below in magnitude to s * num / den (num > 0, den > 0).
ToFloat(s, num, den) ==
    LET d == Digits(num \div den, num % den, den, 0)
    IN  [k |-> "fin", mant |-> s * d.mant, exp |-> d.exp]

\* A division that guards a zero divisor by answering 0.
FDivZeroGuarded(x, m, d) ==
    IF x.k = "nan" THEN DNaN
    ELSE IF m = 0 THEN DZero
    ELSE IF x.k = "inf"
         THEN IF x.num * Sgn(m) > 0 THEN DPInf ELSE DNInf
    ELSE IF x.num = 0 THEN DZero
    ELSE LET g == Gcd(Abs(x.num), Abs(m))
             h == Gcd(d, x.den)
         IN  ToFloat(Sgn(x.num) * Sgn(m), (Abs(x.num) \div g) * (d \div h),
                     (x.den \div h) * (Abs(m) \div g))

\* x / (m / d) for a numpy float64 x and the Python float m / d (d > 0): a
\* zero divisor gives inf or nan (with a RuntimeWarning), never an exception.
FDiv(x, m, d) ==
    IF x.k = "nan" THEN DNaN
    ELSE IF m = 0
         THEN IF x.num = 0 THEN DNaN ELSE IF x.num > 0 THEN DPInf ELSE DNInf
    ELSE IF x.k = "inf"
         THEN IF x.num * Sgn(m) > 0 THEN DPInf ELSE DNInf
    ELSE IF x.num = 0 THEN DZero
    ELSE LET g == Gcd(Abs(x.num), Abs(m))
             h == Gcd(d, x.den)
         IN  ToFloat(Sgn(x.num) * Sgn(m), (Abs(x.num) \div g) * (d \div h),
                     (x.den \div h) * (Abs(m) \div g))

\* The quotient returned without the square.
FSquareMissing(x) == x

\* x ** 2
FSquare(x) ==
    IF x.k = "nan" THEN DNaN
    ELSE IF x.k = "inf" THEN DPInf
    ELSE [k |-> "fin", mant |-> x.mant * x.mant, exp |-> 2 * x.exp]

\* x <= y for finite float results x, y >= 0 returned by FSquare.
FLeq(x, y) ==
    IF x.mant = 0 THEN TRUE
    ELSE IF y.mant = 0 THEN FALSE
    ELSE x.exp < y.exp \/ (x.exp = y.exp /\ x.mant <= y.mant)

-----------------------------------------------------------------------------
(* The library primitives get_sample_estimate calls.                       *)

\* 10000 * Phi^-1(k/80), k = 1..79, rounded to the nearest integer.
NormPpfTable ==
    <<
       -22414, -19600, -17805, -16449, -15341, -14395, -13563, -12816,
       -12133, -11503, -10916, -10364,  -9842,  -9346,  -8871,  -8416,
        -7978,  -7554,  -7144,  -6745,  -6357,  -5978,  -5607,  -5244,
        -4888,  -4538,  -4193,  -3853,  -3518,  -3186,  -2858,  -2533,
        -2211,  -1891,  -1573,  -1257,   -941,   -627,   -313,      0,
          313,    627,    941,   1257,   1573,   1891,   2211,   2533,
         2858,   3186,   3518,   3853,   4193,   4538,   4888,   5244,
         5607,   5978,   6357,   6745,   7144,   7554,   7978,   8416,
         8871,   9346,   9842,  10364,  10916,  11503,  12133,  12816,
        13563,  14395,  15341,  16449,  17805,  19600,  22414 >>

\* st.norm.ppf(q / (2 * ProbDen)): nan outside [0, 1], -inf at 0, inf at 1.
norm_ppf(q) ==
    IF q < 0 \/ q > 2 * ProbDen THEN NaN
    ELSE IF q = 0 THEN NInf
    ELSE IF q = 2 * ProbDen THEN PInf
    ELSE Fin(NormPpfTable[q], ZScale)

\* The largest r in lo..hi with (2r - 1)^2 <= w, by bisection (lo has it).
RECURSIVE SqrtSearch(_, _, _)
SqrtSearch(lo, hi, w) ==
    IF lo = hi THEN lo
    ELSE LET mid == (lo + hi + 1) \div 2
         IN  IF (2 * mid - 1) * (2 * mid - 1) <= w
             THEN SqrtSearch(mid, hi, w)
             ELSE SqrtSearch(lo, mid - 1, w)

\* math.sqrt(v / RateDen^2) in units of 1/ZScale, rounded to the nearest
\* unit, for v >= 0 (a negative v is the caller's ValueError).
math_sqrt(v) ==
    IF v = 0 THEN 0
    ELSE SqrtSearch(0, ZScale, 4 * v * ((ZScale \div RateDen) * (ZScale \div RateDen)))

-----------------------------------------------------------------------------
(* get_sample_estimate                                                     *)

\* sigma1=None (v is a placeholder), and a given sigma1.
None == [none |-> TRUE, v |-> 1]
Given(s) == [none |-> FALSE, v |-> s]

NoResult == [kind |-> "none", exc |-> "", n |-> DNaN]
Raise(e) == [kind |-> "raise", exc |-> e, n |-> DNaN]
Return(x) == [kind |-> "return", exc |-> "", n |-> x]

\* A chain whose last branch takes every other tail as two-tailed.
TailAcceptedLoose(tail) == tail >= 1

\* The tails the chain of lines 61-66 accepts; any other raises.
TailAccepted(tail) == tail \in {1, 2}

\* z_alpha of lines 61-64 for an accepted tail.
ZAlpha(sig, tail) ==
    IF tail = 1 THEN norm_ppf(2 * (ProbDen - sig))
    ELSE norm_ppf(2 * ProbDen - sig)

\* The quantile of 1 - power in place of power.
ZBetaComplement(power) == norm_ppf(2 * (ProbDen - power))

\* z_beta of line 68.
ZBeta(power) == norm_ppf(2 * power)

\* math.sqrt(p*(1-p)) raises ValueError on a negative argument.
SqrtDomainOk(p) == p * (RateDen - p) >= 0

\* The numerator of the binomial formula, line 73.
BinomialNumerator(sig, power, mde, p1, tail) ==
    FAdd(FMul(ZAlpha(sig, tail), math_sqrt(p1 * (RateDen - p1))),
         FMul(ZBeta(power), math_sqrt((p1 + mde) * (RateDen - (p1 + mde)))))

\* A missing sigma1 taken as 1.
PyDivErrorNoneIgnored(mde, sigma1) ==
    IF ~sigma1.none /\ sigma1.v = 0 THEN "ZeroDivisionError: division by zero"
    ELSE ""

\* The exception of the Python division mde/sigma1 of line 75, "" for none.
PyDivError(mde, sigma1) ==
    IF sigma1.none THEN "TypeError: unsupported operand type(s) for /"
    ELSE IF sigma1.v = 0 THEN "ZeroDivisionError: division by zero"
    ELSE ""

get_sample_estimate(sig, power, mde, p1, sigma1, var_type, tail) ==
    IF ~TailAccepted(tail)
    THEN Raise("Exception: tail can only be 1 or 2")
    ELSE LET z_alpha == ZAlpha(sig, tail)
             z_beta == ZBeta(power)
             p2 == p1 + mde
         IN  IF var_type = "binomial"
             THEN IF ~SqrtDomainOk(p1) \/ ~SqrtDomainOk(p2)
                  THEN Raise("ValueError: math domain error")
                  ELSE Return(FSquare(FDiv(
                           BinomialNumerator(sig, power, mde, p1, tail),
                           mde, RateDen)))
             ELSE IF var_type = "continuous"
             THEN IF PyDivError(mde, sigma1) # ""
                  THEN Raise(PyDivError(mde, sigma1))
                  ELSE Return(FSquare(FDiv(
                           FAdd(z_alpha, z_beta), mde, sigma1.v)))
             ELSE Raise("Exception: var_type can only be binomial or continuous")

-----------------------------------------------------------------------------
(* The arguments the calculator is called with.                            *)

MaxTail == 3
MaxMdeTenths == 3

SigValues == {-4, 0, 2, 4, 20, 30, 40, 60, 80, 84}
PowerValues == {-4, 0, 8, 16, 20, 32, 36, 40, 44}
MdeValues == {1} \cup {10 * k : k \in -MaxMdeTenths..MaxMdeTenths}
P1Values == {0, 4, 30, 50, 90, 100}
Sigma1Values == {None, Given(0), Given(50)}
VarTypes == {"binomial", "continuous", "unknown"}
TailValues == 0..MaxTail

NoArgs == [sig |-> 0, power |-> 0, mde |-> 0, p1 |-> 0, sigma1 |-> None,
           var_type |-> "", tail |-> 0]

EstInit ==
    /\ est_pc = "idle"
    /\ est_args = NoArgs
    /\ est_result = NoResult

\* One call of get_sample_estimate, as in the cell at line 109.
GetSampleEstimate ==
    /\ est_pc = "idle"
    /\ \E sig \in SigValues, power \in PowerValues, mde \in MdeValues,
          p1 \in P1Values, sigma1 \in Sigma1Values, var_type \in VarTypes,
          tail \in TailValues :
          /\ est_args' = [sig |-> sig, power |-> power, mde |-> mde, p1 |-> p1,
                          sigma1 |-> sigma1, var_type |-> var_type,
                          tail |-> tail]
          /\ est_result' = get_sample_estimate(sig, power, mde, p1, sigma1,
                                               var_type, tail)
    /\ est_pc' = "done"

-----------------------------------------------------------------------------
(* draw_samples                                                            *)

\* random.uniform(0, 1.0) returns a multiple of 1/UniformSteps in [0, 1),
\* 0 included; p is a multiple of 1/UniformSteps in [0, 1].
UniformSteps == 4
\* The notebook draws 5000 samples per group; the model draws 0..MaxN.
MaxN == 3

UniformValues == 0..(UniformSteps - 1)
PValues == 0..UniformSteps

\* draw_sample of lines 128-129, on the value u that random.uniform returned.
draw_sample(p, u) == IF u <= p THEN 1 ELSE 0

\* range(1, n): one iteration short.
LoopHasNextOffByOne(done, n) == done + 1 < n

\* range(0, n) of line 132 has another i to give after `done` iterations.
LoopHasNext(done, n) == done < n

\* o.append(x) of line 133.
ListAppend(o, x) == Append(o, x)

NoDraw == [target |-> "", p |-> 0, n |-> 0, o |-> <<>>, status |-> "idle"]

\* The call draw_samples(p, n) of line 146 (control) or line 149 (test):
\* lines 131-132, before the first iteration. Both groups have one size.
CallDrawSamples ==
    /\ exp_pc \in {"draw_control", "draw_test"}
    /\ draw.status # "running"
    /\ \E p \in PValues, n \in 0..MaxN :
          /\ exp_pc = "draw_test" => n = Len(control_group)
          /\ draw' = [target |-> exp_pc, p |-> p, n |-> n, o |-> <<>>,
                      status |-> "running"]
    /\ rand_taken' = <<>>
    /\ UNCHANGED <<exp_pc, control_group, test_group, chi_result, power_result>>

\* One iteration of the loop of lines 132-133.
DrawSampleStep ==
    /\ draw.status = "running"
    /\ LoopHasNext(Len(draw.o), draw.n)
    /\ \E u \in UniformValues :
          /\ rand_taken' = Append(rand_taken, u)
          /\ draw' = [draw EXCEPT !.o = ListAppend(@, draw_sample(draw.p, u))]
    /\ UNCHANGED <<exp_pc, control_group, test_group, chi_result, power_result>>

\* The loop is over: return o (line 135) into the group being drawn.
ReturnDrawSamples ==
    /\ draw.status = "running"
    /\ ~LoopHasNext(Len(draw.o), draw.n)
    /\ draw' = [draw EXCEPT !.status = "returned"]
    /\ IF draw.target = "draw_control"
       THEN /\ control_group' = draw.o
            /\ exp_pc' = "draw_test"
            /\ UNCHANGED test_group
       ELSE /\ test_group' = draw.o
            /\ exp_pc' = "significance"
            /\ UNCHANGED control_group
    /\ UNCHANGED <<rand_taken, chi_result, power_result>>

-----------------------------------------------------------------------------
(* The evaluation cells                                                    *)

\* len(list(filter(lambda v: v == i, group)))
Count(group, i) == Cardinality({j \in 1..Len(group) : group[j] = i})

\* f_obs and f_exp of lines 199-200.
FObs(test) == <<Count(test, 0), Count(test, 1)>>
FExpSwapped(control) == <<Count(control, 1), Count(control, 0)>>
FExp(control) == <<Count(control, 0), Count(control, 1)>>

\* One term (o - e)**2 / e of scipy's chisquare, in float64 arrays: a zero
\* e gives inf, or nan for 0/0, and no exception.
ChiTerm(o, e) ==
    IF e # 0 THEN Fin((o - e) * (o - e), e)
    ELSE IF o = e THEN NaN ELSE PInf

\* Critical values of the chi-square distribution with 1 degree of freedom:
\* <<p in 1/1000, floor(10000 * x), ceiling(10000 * x)>> with sf(x) = p.
Chi2Critical ==
    << <<500, 4549, 4550>>, <<100, 27055, 27056>>, <<50, 38414, 38415>>,
       <<10, 66348, 66349>>, <<1, 108275, 108276>> >>

\* st.chi2.sf(x, 1) as the interval [lo, hi] (in 1/1000) that holds it:
\* exactly 1 at 0, exactly 0 at inf, nan at nan. sf decreases, so it is at
\* most p from the ceiling of p's critical value on and at least p up to the
\* floor; an x between the floor and the ceiling is on neither side.
chi2_sf(x) ==
    IF x.k = "nan" THEN [k |-> "nan", lo |-> 0, hi |-> 0]
    ELSE IF x.k = "inf" THEN [k |-> "fin", lo |-> 0, hi |-> 0]
    ELSE IF x.num = 0 THEN [k |-> "fin", lo |-> 1000, hi |-> 1000]
    ELSE LET below == {c \in 1..Len(Chi2Critical) :
                          x.num * 10000 >= Chi2Critical[c][3] * x.den}
             above == {c \in 1..Len(Chi2Critical) :
                          x.num * 10000 <= Chi2Critical[c][2] * x.den}
         IN  [k |-> "fin",
              lo |-> IF above = {} THEN 0
                     ELSE Chi2Critical[CHOOSE c \in above :
                                           \A d \in above : c <= d][1],
              hi |-> IF below = {} THEN 1000
                     ELSE Chi2Critical[CHOOSE c \in below :
                                           \A d \in below : c >= d][1]]

\* st.chi2.cdf(x, 1) = 1 - sf(x, 1).
chi2_cdf(x) ==
    LET s == chi2_sf(x)
    IN  IF s.k = "nan" THEN s
        ELSE [k |-> "fin", lo |-> 1000 - s.hi, hi |-> 1000 - s.lo]

NoValue == [kind |-> "none", exc |-> "", statistic |-> NaN,
            pvalue |-> chi2_sf(NaN)]

\* st.chisquare(f_obs, f_exp) of line 202: the statistic over the two
\* categories and its p-value with 2 - 1 degrees of freedom.
chisquare(f_obs, f_exp) ==
    LET statistic == FAdd(ChiTerm(f_obs[1], f_exp[1]),
                          ChiTerm(f_obs[2], f_exp[2]))
    IN  [kind |-> "return", exc |-> "", statistic |-> statistic,
         pvalue |-> chi2_sf(statistic)]

\* The literal 5000 of line 238.
PowerSampleSize == 5000

\* x * c for a Python float x and an int c >= 0.
FScale(x, c) == Fin(x.num * c, x.den)

\* (o - e)**2 / e of line 236 for e # 0.
PyTerm(o, e) == Fin((o - e) * (o - e), e)

\* sum(r_int) of line 238.
SumRInt(test, control) ==
    FAdd(PyTerm(Count(test, 0), Count(control, 0)),
         PyTerm(Count(test, 1), Count(control, 1)))

\* The noncentrality parameter of line 238: sum(r_int) * 5000.
Lambda(test, control) == FScale(SumRInt(test, control), PowerSampleSize)

NoPower == [kind |-> "none", exc |-> "", lambda |-> NaN,
            power |-> chi2_sf(NaN)]

\* The power cell, lines 230-238: (o - e)**2 / e is a division of Python
\* ints, which raises ZeroDivisionError on e = 0.
power_cell(test, control) ==
    IF Count(control, 0) = 0 \/ Count(control, 1) = 0
    THEN [kind |-> "raise", exc |-> "ZeroDivisionError", lambda |-> NaN,
          power |-> chi2_sf(NaN)]
    ELSE [kind |-> "return", exc |-> "", lambda |-> Lambda(test, control),
          power |-> chi2_cdf(Lambda(test, control))]

\* The cell of lines 199-202.
SignificanceCell ==
    /\ exp_pc = "significance"
    /\ chi_result' = chisquare(FObs(test_group), FExp(control_group))
    /\ exp_pc' = "power"
    /\ UNCHANGED <<draw, rand_taken, control_group, test_group, power_result>>

\* The cell of lines 230-238.
PowerCell ==
    /\ exp_pc = "power"
    /\ power_result' = power_cell(test_group, control_group)
    /\ exp_pc' = "done"
    /\ UNCHANGED <<draw, rand_taken, control_group, test_group, chi_result>>

ExpInit ==
    /\ exp_pc = "draw_control"
    /\ draw = NoDraw
    /\ rand_taken = <<>>
    /\ control_group = <<>>
    /\ test_group = <<>>
    /\ chi_result = NoValue
    /\ power_result = NoPower

-----------------------------------------------------------------------------
(* The specifications: the calculator, and the experiment.                 *)

Init == EstInit /\ ExpInit

Next == GetSampleEstimate /\ UNCHANGED exp_vars

Spec == Init /\ [][Next]_vars

ExperimentNext ==
    \/ CallDrawSamples /\ UNCHANGED est_vars
    \/ DrawSampleStep /\ UNCHANGED est_vars
    \/ ReturnDrawSamples /\ UNCHANGED est_vars
    \/ SignificanceCell /\ UNCHANGED est_vars
    \/ PowerCell /\ UNCHANGED est_vars

ExperimentSpec == Init /\ [][ExperimentNext]_vars

-----------------------------------------------------------------------------
(* Properties of get_sample_estimate, checked under Spec.                  *)

EstDone == est_pc = "done"
ValidProb(x) == 0 < x /\ x < ProbDen
ValidRate(p) == 0 <= p /\ p <= RateDen

\* The call reaches the formula of line 73 or 75 and evaluates it.
Evaluates ==
    /\ est_args.tail \in {1, 2}
    /\ \/ /\ est_args.var_type = "binomial"
          /\ ValidRate(est_args.p1)
          /\ ValidRate(est_args.p1 + est_args.mde)
       \/ /\ est_args.var_type = "continuous"
          /\ ~est_args.sigma1.none
          /\ est_args.sigma1.v > 0

\* C1: every call whose tail is not 1 or 2, and every call with tail 1 or 2
\* whose var_type is neither 'binomial' nor 'continuous', raises and
\* returns no number, whatever the other arguments are.
C1_BadTailOrVarTypeRaises ==
    (EstDone /\ (est_args.tail \notin {1, 2}
                 \/ est_args.var_type \notin {"binomial", "continuous"}))
    => /\ est_result.kind = "raise"
       /\ est_result.exc = IF est_args.tail \notin {1, 2}
                           THEN "Exception: tail can only be 1 or 2"
                           ELSE "Exception: var_type can only be binomial or continuous"

\* tail=2, var_type='unknown' with an invalid sig and mde = 0 has raised.
C1_Witness ==
    /\ EstDone
    /\ est_args.tail = 2 /\ est_args.var_type = "unknown"
    /\ est_args.sig = -4 /\ est_args.mde = 0
    /\ est_result.kind = "raise"

InvalidParams ==
    \/ ~ValidProb(est_args.sig)
    \/ ~ValidProb(est_args.power)
    \/ est_args.mde = 0

\* C4 as claimed: a call with sig outside (0,1), power outside (0,1) or
\* mde = 0 fails with an error and never returns a value.
C4_InvalidParamsRaise ==
    (EstDone /\ InvalidParams) => est_result.kind = "raise"

\* The invalid values that make the returned value nan or infinite.
NonFiniteCase ==
    \/ ~ValidProb(est_args.power)
    \/ est_args.mde = 0
    \/ est_args.tail = 1 /\ ~ValidProb(est_args.sig)
    \/ est_args.tail = 2 /\ (est_args.sig <= 0 \/ est_args.sig >= 2 * ProbDen)

\* C4 amended: sig, power and mde are not validated. A call that reaches
\* the formula with sig outside (0,1), power outside (0,1) or mde = 0 raises
\* nothing and returns a value: nan or infinite, except that tail=2 with
\* 1 <= sig < 2 returns a finite number.
C4_InvalidParamsReturnGarbage ==
    (EstDone /\ InvalidParams /\ Evaluates)
    => /\ est_result.kind = "return"
       /\ est_result.n.k \in {"nan", "inf"} <=> NonFiniteCase

\* sig = -0.1 with otherwise valid binomial arguments has returned nan.
C4_Witness ==
    /\ EstDone
    /\ est_args.sig = -4 /\ est_args.power = 32 /\ est_args.mde = 1
    /\ est_args.p1 = 4 /\ est_args.var_type = "binomial" /\ est_args.tail = 1
    /\ est_result.kind = "return" /\ est_result.n.k = "nan"

\* C5: var_type='continuous' with sigma1 absent raises for every sig,
\* power, mde and tail in {1, 2}; it never returns a number.
C5_ContinuousWithoutSigmaRaises ==
    (EstDone /\ est_args.var_type = "continuous" /\ est_args.sigma1 = None
             /\ est_args.tail \in {1, 2})
    => /\ est_result.kind = "raise"
       /\ est_result.exc = "TypeError: unsupported operand type(s) for /"

\* A continuous call with valid sig, power, mde and no sigma1 has raised.
C5_Witness ==
    /\ EstDone
    /\ est_args.var_type = "continuous" /\ est_args.sigma1 = None
    /\ est_args.sig = 2 /\ est_args.power = 32 /\ est_args.mde = 10
    /\ est_args.tail = 1
    /\ est_result.kind = "raise"

ValidBinomialCall ==
    /\ EstDone
    /\ est_args.var_type = "binomial" /\ est_args.tail \in {1, 2}
    /\ ValidProb(est_args.sig) /\ ValidProb(est_args.power)
    /\ est_args.mde # 0 /\ ValidRate(est_args.p1)

\* C6 as claimed: for valid sig, power, mde # 0 and p1, the binomial
\* estimate returns a positive finite number; it never raises, never is 0.
C6_BinomialPositiveFinite ==
    ValidBinomialCall
    => /\ est_result.kind = "return"
       /\ est_result.n.k = "fin"
       /\ est_result.n.mant > 0

\* The numerator of line 73 for the arguments of the call.
CallNumerator ==
    BinomialNumerator(est_args.sig, est_args.power, est_args.mde,
                      est_args.p1, est_args.tail)

\* C6 amended: for valid sig, power, mde # 0 and p1, the binomial estimate
\* raises ValueError when p2 = p1 + mde is outside [0,1]; otherwise it
\* returns a finite number that is never negative, and is 0 exactly when
\* the numerator z_alpha*sqrt(p1(1-p1)) + z_beta*sqrt(p2(1-p2)) is 0.
C6_BinomialNonNegativeOrDomainError ==
    ValidBinomialCall
    => IF ValidRate(est_args.p1 + est_args.mde)
       THEN /\ est_result.kind = "return"
            /\ est_result.n.k = "fin"
            /\ est_result.n.mant >= 0
            /\ est_result.n.mant = 0 <=> CallNumerator.num = 0
       ELSE /\ est_result.kind = "raise"
            /\ est_result.exc = "ValueError: math domain error"

\* The call sig=0.05, power=0.8, mde=0.01, p1=0.04, tail=1 has returned a
\* positive number.
C6_Witness ==
    /\ ValidBinomialCall
    /\ est_args.sig = 2 /\ est_args.power = 32 /\ est_args.mde = 1
    /\ est_args.p1 = 4 /\ est_args.tail = 1
    /\ est_result.kind = "return" /\ est_result.n.mant > 0

\* The estimate of the call's arguments with power replaced by b.
EstimateAtPower(b) ==
    get_sample_estimate(est_args.sig, b, est_args.mde, est_args.p1,
                        est_args.sigma1, est_args.var_type, est_args.tail)

\* C7 as claimed: with sig, mde, p1 and tail fixed at valid values, the
\* binomial estimate is non-decreasing in power over all of (0,1).
C7_MonotoneInPower ==
    (ValidBinomialCall /\ est_result.kind = "return")
    => \A b \in PowerValues :
          (ValidProb(b) /\ est_args.power < b)
          => FLeq(est_result.n, EstimateAtPower(b).n)

\* C7 amended: the binomial estimate is non-decreasing in power from every
\* power at which the numerator z_alpha*sqrt(p1(1-p1)) + z_beta*sqrt(p2(1-p2))
\* is not negative (every power >= 0.5 when z_alpha >= 0).
C7_MonotoneFromNonNegativeNumerator ==
    (ValidBinomialCall /\ est_result.kind = "return" /\ CallNumerator.num >= 0)
    => \A b \in PowerValues :
          (ValidProb(b) /\ est_args.power < b)
          => FLeq(est_result.n, EstimateAtPower(b).n)

\* A call at power 0.8 whose estimate is strictly below that at power 0.9.
C7_Witness ==
    /\ ValidBinomialCall
    /\ est_args.sig = 2 /\ est_args.power = 32 /\ est_args.mde = 1
    /\ est_args.p1 = 4 /\ est_args.tail = 1
    /\ est_result.kind = "return"
    /\ CallNumerator.num > 0
    /\ ~FLeq(EstimateAtPower(36).n, est_result.n)

-----------------------------------------------------------------------------
(* Properties of draw_samples and the evaluation cells, checked under      *)
(* ExperimentSpec.                                                         *)

\* The list the last returned call of draw_samples returned.
Returned == IF draw.target = "draw_control" THEN control_group ELSE test_group

\* C2 as claimed: draw(0, n) is n zeros and draw(1, n) is n ones, for every
\* value random.uniform can return, 0 included.
C2_DegenerateDraws ==
    draw.status = "returned"
    => /\ draw.p = 0
          => /\ Len(Returned) = draw.n
             /\ \A i \in 1..Len(Returned) : Returned[i] = 0
       /\ draw.p = UniformSteps
          => /\ Len(Returned) = draw.n
             /\ \A i \in 1..Len(Returned) : Returned[i] = 1

\* C10: draw(p, n) takes exactly n values from random.uniform, one per
\* trial in order, and returns a list of length n whose i-th element is 1
\* if the i-th value is <= p and 0 otherwise; for n = 0 it takes none and
\* returns the empty list. While it runs it has taken one value per element.
C10_OneUniformValuePerSample ==
    /\ draw.status = "running" => Len(rand_taken) = Len(draw.o)
    /\ draw.status = "returned"
       => /\ Len(rand_taken) = draw.n
          /\ Len(Returned) = draw.n
          /\ \A i \in 1..draw.n :
                Returned[i] = IF rand_taken[i] <= draw.p THEN 1 ELSE 0
          /\ draw.n = 0 => (rand_taken = <<>> /\ Returned = <<>>)

\* A call with 0 < p < 1 and n = MaxN has returned both a 1 and a 0.
C10_Witness ==
    /\ draw.status = "returned"
    /\ draw.n = MaxN /\ draw.p = 2
    /\ Len(rand_taken) = MaxN
    /\ \E i, j \in 1..Len(Returned) : Returned[i] = 1 /\ Returned[j] = 0

\* The significance cell has run; the power cell has run.
SignificanceRan == exp_pc \in {"power", "done"}
PowerRan == exp_pc = "done"

\* The control group has no 0s or no 1s.
ZeroExpected == Count(control_group, 0) = 0 \/ Count(control_group, 1) = 0

\* C3: the significance test and the power estimate both fail with an
\* error, producing no result, whenever the expected (control) group has a
\* zero count for either category.
C3_ZeroExpectedFailsBoth ==
    /\ (SignificanceRan /\ ZeroExpected) => chi_result.kind = "raise"
    /\ (PowerRan /\ ZeroExpected) => power_result.kind = "raise"

\* C8: lambda = n * sum over i of (O_i - E_i)^2 / E_i with n the length of
\* the observed (test) group, for all groups with non-zero expected counts.
C8_LambdaUsesGroupLength ==
    (PowerRan /\ power_result.kind = "return")
    => power_result.lambda
       = FScale(SumRInt(test_group, control_group), Len(test_group))

\* C9: a group tested against itself yields statistic 0 and p-value 1,
\* when it has both 0s and 1s.
C9_SelfTestIsZero ==
    (SignificanceRan /\ test_group = control_group /\ ~ZeroExpected)
    => /\ chi_result.kind = "return"
       /\ chi_result.statistic = Fin(0, 1)
       /\ chi_result.pvalue = [k |-> "fin", lo |-> 1000, hi |-> 1000]

\* The significance cell has run on two equal groups of MaxN samples with
\* unequal counts of 0s and 1s.
C9_Witness ==
    /\ SignificanceRan
    /\ test_group = control_group /\ ~ZeroExpected
    /\ Len(control_group) = MaxN
    /\ Count(control_group, 0) # Count(control_group, 1)
    /\ chi_result.kind = "return"

====
